---- MODULE Spec2Model ----
(***************************************************************************)
(* State machine of the App component of react-todo-app (src/src/App.tsx): *)
(* the component's React state, the asynchronous handlers with their       *)
(* positions at each await, the error timers started by showError and the  *)
(* remote store the handlers talk to.                                      *)
(***************************************************************************)
EXTENDS Bags, FiniteSets, Integers, Sequences, TLC

(* ------------------------------ bounds -------------------------------- *)
\* ids the remote store can assign (createTodo is not issued beyond it)
MaxId == 2
\* handlers that may be suspended at an await at the same time
MaxTasks == 2
\* handler invocations by the user in one behaviour
MaxIntents == 3

(* --------------------------- program constants ------------------------ *)
\* delay of the setTimeout in showError, in ms
ErrorDelay == 3000
\* granularity of the model's clock, in ms
TickMs == ErrorDelay \div 3

ALL == "all"
ACTIVE == "active"
COMPLETED == "completed"
FilterType == {ALL, ACTIVE, COMPLETED}

ErrEmptyTitle == "Title can't be empty"
ErrLoad == "Unable to load todos"
ErrAdd == "Unable to add a todo"
ErrDelete == "Unable to delete a todo"
ErrUpdate == "Unable to update a todo"

\* the value of useContext(AuthContext): a user, or none
SomeUser == [present |-> TRUE, id |-> 1]
NoUser == [present |-> FALSE, id |-> 0]

\* titles are sequences of characters, so that trim() is computed
Blank == " "
DraftTitles == {<<>>, <<Blank>>, <<"a">>}
NewTitles == {<<"b">>}
Ids == 1..MaxId

VARIABLES
  user,             \* useContext(AuthContext)
  todos,            \* useState<Todo[]>
  visibleTodos,     \* useState<Todo[]>, set by the filtering effect
  filterBy,         \* useState<FilterType>
  error,            \* useState<ErrorType>
  todoTitle,        \* useState('')
  isAdding,         \* useState(false)
  deletedTodoIds,   \* useState<number[]>
  selectedTodoIds,  \* useState<number[]>
  toggleAllTodos,   \* the todos captured by the memoized handleToggleAllTodos
  timers,           \* pending setTimeout callbacks of showError: ms left, oldest first
  tasks,            \* bag of handlers suspended at an await
  serverTodos,      \* the remote store's todos of the user
  nextId,           \* the id the remote store assigns next
  intents           \* number of handler invocations by the user so far

vars == <<user, todos, visibleTodos, filterBy, error, todoTitle, isAdding,
          deletedTodoIds, selectedTodoIds, toggleAllTodos, timers, tasks,
          serverTodos, nextId, intents>>

(* ------------------------------ helpers ------------------------------- *)
Todo(id, title, completed) ==
  [id |-> id, title |-> title, completed |-> completed, userId |-> SomeUser.id]

NoError == [status |-> FALSE, message |-> ""]

RECURSIVE trimStart(_)
trimStart(s) ==
  IF s # <<>> /\ Head(s) = Blank THEN trimStart(Tail(s)) ELSE s

RECURSIVE trimEnd(_)
trimEnd(s) ==
  IF s # <<>> /\ s[Len(s)] = Blank THEN trimEnd(SubSeq(s, 1, Len(s) - 1)) ELSE s

\* String.prototype.trim
trim(s) == trimEnd(trimStart(s))

\* todos.map(todo => todo.id)
IdsOf(list) == [i \in 1..Len(list) |-> list[i].id]

Range(s) == {s[i] : i \in 1..Len(s)}

\* todos.filter(todo => todo.completed)
CompletedOf(list) == SelectSeq(list, LAMBDA t: t.completed)

\* todos.every(todo => todo.completed)
isEachTodoCompleted(list) == \A i \in 1..Len(list): list[i].completed

\* mutant: the filtering effect ignores filterBy
filteredTodos_Unfiltered(list, f) == list

\* the callback of the filtering effect
filteredTodos(list, f) ==
  SelectSeq(list, LAMBDA t:
    CASE f = ALL -> TRUE
      [] f = ACTIVE -> ~t.completed
      [] f = COMPLETED -> t.completed
      [] OTHER -> TRUE)

(* --------------------------- remote store ----------------------------- *)
NoCall == [type |-> "none", id |-> 0, title |-> <<>>, completed |-> FALSE]
CreateCall(title) == [type |-> "create", id |-> 0, title |-> title, completed |-> FALSE]
DeleteCall(id) == [type |-> "delete", id |-> id, title |-> <<>>, completed |-> FALSE]
UpdateCompletedCall(id, completed) ==
  [type |-> "updateCompleted", id |-> id, title |-> <<>>, completed |-> completed]
UpdateTitleCall(id, title) ==
  [type |-> "updateTitle", id |-> id, title |-> title, completed |-> FALSE]

\* the store's list after it has carried out call c
ServerApply(list, c, id) ==
  CASE c.type = "create" -> Append(list, Todo(id, c.title, FALSE))
    [] c.type = "delete" -> SelectSeq(list, LAMBDA t: t.id # c.id)
    [] c.type = "updateCompleted" ->
         [i \in 1..Len(list) |->
            IF list[i].id = c.id THEN [list[i] EXCEPT !.completed = c.completed]
            ELSE list[i]]
    [] c.type = "updateTitle" ->
         [i \in 1..Len(list) |->
            IF list[i].id = c.id THEN [list[i] EXCEPT !.title = c.title]
            ELSE list[i]]
    [] OTHER -> list

(* ------------------------------- tasks -------------------------------- *)
\* A suspended handler: kind is the handler, id its todoId argument, pc the
\* await it is at ("mutate": the mutation calls of `calls`; "load": getTodos
\* sent; "loaded": the response of getTodos on its way back; "resume":
\* loadTodos has returned and the continuation of `await loadTodos()` is
\* queued), resp the response of getTodos, created the id createTodo
\* answered.
NoResp == [ok |-> FALSE, todos |-> <<>>]

Task(kind, id, pc, calls) ==
  [kind |-> kind, id |-> id, pc |-> pc, calls |-> calls, resp |-> NoResp, created |-> 0]

One(t) == SetToBag({t})
Running == BagToSet(tasks)
CallsOf(type) ==
  {<<t, c>> \in UNION {{t} \X t.calls : t \in Running} : c.type = type}
CreatesOutstanding ==
  LET ts == {t \in Running : \E c \in t.calls : c.type = "create"}
  IN  IF ts = {} THEN 0 ELSE BagCardinality([t \in ts |-> tasks[t]])


(* ----------------------- pieces shared by handlers -------------------- *)
\* showError(message): setError, and a timer that is never cancelled
showError(message) ==
  /\ error' = [status |-> TRUE, message |-> message]
  /\ timers' = Append(timers, ErrorDelay)

NoShowError == UNCHANGED <<error, timers>>

\* The render that follows the state updates of a step, and its commit:
\* handleToggleAllTodos (useCallback with [selectedTodoIds]) is made anew,
\* with the todos of this render, only when setSelectedTodoIds was called
\* (every call passes a new array).  visibleTodos is state of its own: this
\* commit still shows the old one, the filtering effect runs after it.
Rerender(setSelectedCalled) ==
  /\ UNCHANGED visibleTodos
  /\ toggleAllTodos' = IF setSelectedCalled THEN todos' ELSE toggleAllTodos

\* No effect is waiting to run.  React runs the pending effects before it
\* handles a user event, so a handler starts only when the filtering effect
\* has run.  A promise continuation and a timer callback do not wait for
\* it: under batched updates they may set state before the effect of the
\* commit before them has run.  (The effect runs again only when filterBy
\* or todos changed; a run that sets an equal list shows nothing new.)
EffectsFlushed == visibleTodos = filteredTodos(todos, filterBy)

\* The continuation of an `await loadTodos()` is queued.  It is a microtask:
\* only other promise continuations can run before it, no event handler
\* and no timer callback.
ContinuationPending == \E t \in BagToSet(tasks) : t.pc = "resume"

\* `if (user)` of loadTodos and handleAddNewTodo
UserSignedIn(u) == u.present

\* what a handler does after its `await loadTodos()` has returned
SelectingKinds == {"toggle", "toggleAll", "rename"}
\* mutant: no handler clears its markers after the reload
AfterLoadSelected_Kept(t) == selectedTodoIds
\* mutant: handleToggleTodo empties selectedTodoIds after the reload
AfterLoadSelected_AllCleared(t) ==
  IF t.kind \in {"toggle", "toggleAll", "rename"} THEN <<>> ELSE selectedTodoIds
AfterLoadSelected(t) ==
  CASE t.kind = "toggle" -> SelectSeq(selectedTodoIds, LAMBDA id: id # t.id)
    [] t.kind \in {"toggleAll", "rename"} -> <<>>
    [] OTHER -> selectedTodoIds
\* mutant: setIsAdding(false) forgotten after the reload
AfterLoadIsAdding_Forgotten(t) == isAdding
AfterLoadIsAdding(t) == IF t.kind = "add" THEN FALSE ELSE isAdding
AfterLoadTodoTitle(t) == IF t.kind = "add" THEN <<>> ELSE todoTitle

AfterLoad(t) ==
  /\ selectedTodoIds' = AfterLoadSelected(t)
  /\ isAdding' = AfterLoadIsAdding(t)
  /\ todoTitle' = AfterLoadTodoTitle(t)
  /\ UNCHANGED deletedTodoIds

\* the catch block of the handler of kind `kind`
\* mutant: one message for every catch block
CatchMessage_Same(kind) == ErrUpdate
CatchMessage(kind) ==
  CASE kind = "add" -> ErrAdd
    [] kind \in {"remove", "removeCompleted"} -> ErrDelete
    [] OTHER -> ErrUpdate
\* mutant: setDeletedTodoIds([]) forgotten in the catch block
CatchDeleted_Forgotten(kind) == deletedTodoIds
CatchDeleted(kind) == IF kind = "remove" THEN <<>> ELSE deletedTodoIds
\* mutant: the catch block of handleDeleteCompletedTodos leaves selectedTodoIds
CatchClearsSelected_NotTheBatchDelete(kind) == kind \in SelectingKinds
CatchClearsSelected(kind) == kind \in SelectingKinds \cup {"removeCompleted"}
\* mutant: no catch block calls setSelectedTodoIds([])
CatchSelected_Kept(kind) == selectedTodoIds
CatchSelected(kind) == IF CatchClearsSelected(kind) THEN <<>> ELSE selectedTodoIds
\* mutant: the catch block of handleAddNewTodo without setIsAdding(false)
CatchIsAdding_Forgotten(kind) == isAdding
CatchIsAdding(kind) == IF kind = "add" THEN FALSE ELSE isAdding

Catch(kind) ==
  /\ showError(CatchMessage(kind))
  /\ deletedTodoIds' = CatchDeleted(kind)
  /\ selectedTodoIds' = CatchSelected(kind)
  /\ isAdding' = CatchIsAdding(kind)
  /\ UNCHANGED todoTitle

\* mutant: loadTodos() called without `await`: the handler goes on to its
\* clearing at once and the reload runs on its own
loadTodos_NotAwaited(t, rest) ==
  /\ tasks' = IF user.present
              THEN rest (+) One([t EXCEPT !.kind = "mount", !.pc = "load", !.calls = {}])
              ELSE rest
  /\ AfterLoad(t)
  /\ UNCHANGED todos
  /\ Rerender(t.kind \in SelectingKinds)

\* loadTodos() called by a handler (task t is what the handler becomes while
\* it waits): with a user getTodos is sent; without one loadTodos returns at
\* once and the handler goes on.
loadTodos(t, rest) ==
  IF UserSignedIn(user)
  THEN /\ tasks' = rest (+) One([t EXCEPT !.pc = "load", !.calls = {}])
       /\ UNCHANGED <<selectedTodoIds, isAdding, todoTitle, deletedTodoIds>>
       /\ UNCHANGED todos
       /\ Rerender(FALSE)
  ELSE /\ tasks' = rest
       /\ AfterLoad(t)
       /\ UNCHANGED todos
       /\ Rerender(t.kind \in SelectingKinds)

\* bound: a handler that suspends is started only while fewer than MaxTasks are
CanStart == BagCardinality(tasks) < MaxTasks

\* bound: one more invocation of a handler by the user, at most MaxIntents
Intent ==
  /\ EffectsFlushed
  /\ ~ContinuationPending
  /\ intents < MaxIntents
  /\ intents' = intents + 1

\* mutant: the title is tested without trim()
isBlankTitle_NoTrim(title) == Len(title) = 0

\* !todoTitle.trim().length
isBlankTitle(title) == Len(trim(title)) = 0

(* ------------------------------ handlers ------------------------------ *)
handleSetTodoTitle(title) ==
  /\ Intent
  /\ todoTitle' = title
  /\ UNCHANGED <<user, todos, filterBy, isAdding, deletedTodoIds, selectedTodoIds,
                 tasks, serverTodos, nextId>>
  /\ NoShowError
  /\ Rerender(FALSE)

handleFilterSelect(filterType) ==
  /\ Intent
  /\ filterBy' = filterType
  /\ UNCHANGED <<user, todos, todoTitle, isAdding, deletedTodoIds, selectedTodoIds,
                 tasks, serverTodos, nextId>>
  /\ NoShowError
  /\ Rerender(FALSE)

handleCloseError ==
  /\ Intent
  /\ error' = NoError
  /\ UNCHANGED <<user, todos, filterBy, todoTitle, isAdding, deletedTodoIds,
                 selectedTodoIds, tasks, serverTodos, nextId, timers>>
  /\ Rerender(FALSE)

handleAddNewTodo ==
  /\ Intent
  /\ UNCHANGED <<user, todos, filterBy, todoTitle, deletedTodoIds, selectedTodoIds,
                 serverTodos, nextId>>
  /\ IF ~UserSignedIn(user)
     THEN /\ UNCHANGED <<isAdding, tasks>>
          /\ NoShowError
     ELSE IF isBlankTitle(todoTitle)
     THEN /\ showError(ErrEmptyTitle)
          /\ isAdding' = FALSE
          /\ UNCHANGED tasks
     ELSE /\ CanStart
          /\ nextId + CreatesOutstanding <= MaxId
          /\ isAdding' = TRUE
          /\ tasks' = tasks (+) One(Task("add", 0, "mutate", {CreateCall(todoTitle)}))
          /\ NoShowError
  /\ Rerender(FALSE)

handleDeleteTodo(todoId) ==
  /\ Intent
  /\ CanStart
  /\ deletedTodoIds' = Append(deletedTodoIds, todoId)
  /\ tasks' = tasks (+) One(Task("remove", todoId, "mutate", {DeleteCall(todoId)}))
  /\ UNCHANGED <<user, todos, filterBy, todoTitle, isAdding, selectedTodoIds,
                 serverTodos, nextId>>
  /\ NoShowError
  /\ Rerender(FALSE)

handleDeleteCompletedTodos ==
  LET completedTodoIds == IdsOf(CompletedOf(todos))
      calls == {DeleteCall(id) : id \in Range(completedTodoIds)}
      t == Task("removeCompleted", 0, "mutate", calls)
  IN  /\ Intent
      /\ CanStart
      /\ UNCHANGED <<user, filterBy, serverTodos, nextId>>
      /\ NoShowError
      /\ IF calls # {}
         THEN /\ deletedTodoIds' = completedTodoIds
              /\ tasks' = tasks (+) One(t)
              /\ UNCHANGED <<todos, todoTitle, isAdding, selectedTodoIds>>
              /\ Rerender(FALSE)
         ELSE /\ deletedTodoIds' = completedTodoIds
              /\ IF user.present
                 THEN /\ tasks' = tasks (+) One([t EXCEPT !.pc = "load"])
                      /\ UNCHANGED <<todos, todoTitle, isAdding, selectedTodoIds>>
                      /\ Rerender(FALSE)
                 ELSE /\ UNCHANGED <<tasks, todos, todoTitle, isAdding, selectedTodoIds>>
                      /\ Rerender(FALSE)

handleToggleTodo(todoId, completed) ==
  /\ Intent
  /\ CanStart
  /\ selectedTodoIds' = Append(selectedTodoIds, todoId)
  /\ tasks' = tasks (+)
       One(Task("toggle", todoId, "mutate", {UpdateCompletedCall(todoId, ~completed)}))
  /\ UNCHANGED <<user, todos, filterBy, todoTitle, isAdding, deletedTodoIds,
                 serverTodos, nextId>>
  /\ NoShowError
  /\ Rerender(TRUE)

handleToggleAllTodos ==
  LET each == isEachTodoCompleted(toggleAllTodos)
      chosen == SelectSeq(toggleAllTodos, LAMBDA todo: ~todo.completed \/ each)
      calls == {UpdateCompletedCall(chosen[i].id, ~chosen[i].completed) :
                  i \in 1..Len(chosen)}
      t == Task("toggleAll", 0, "mutate", calls)
  IN  /\ Intent
      /\ CanStart
      /\ UNCHANGED <<user, todos, filterBy, todoTitle, isAdding, deletedTodoIds,
                     serverTodos, nextId>>
      /\ NoShowError
      /\ IF calls # {}
         THEN /\ selectedTodoIds' = selectedTodoIds \o IdsOf(chosen)
              /\ tasks' = tasks (+) One(t)
              /\ Rerender(TRUE)
         ELSE IF user.present
         THEN /\ UNCHANGED selectedTodoIds
              /\ tasks' = tasks (+) One([t EXCEPT !.pc = "load"])
              /\ Rerender(FALSE)
         ELSE /\ selectedTodoIds' = <<>>
              /\ UNCHANGED tasks
              /\ Rerender(TRUE)

handleChangeTodoTitle(todoId, title) ==
  /\ Intent
  /\ CanStart
  /\ selectedTodoIds' = <<todoId>>
  /\ tasks' = tasks (+)
       One(Task("rename", todoId, "mutate", {UpdateTitleCall(todoId, title)}))
  /\ UNCHANGED <<user, todos, filterBy, todoTitle, isAdding, deletedTodoIds,
                 serverTodos, nextId>>
  /\ NoShowError
  /\ Rerender(TRUE)


(* ------------------ the awaited calls come back ----------------------- *)
\* A mutation call c of task t is carried out by the store and its promise
\* is fulfilled.  When it was the last call the handler awaits, the handler
\* goes on to loadTodos().  (An "orphan" is what is left of a Promise.all
\* that was already rejected: its calls still reach the store.)
CallSucceeds(t, c) ==
  LET left == t.calls \ {c}
      rest == tasks (-) One(t)
      t2 == [t EXCEPT !.calls = left,
                      !.created = IF c.type = "create" THEN nextId ELSE @]
  IN  /\ UNCHANGED intents
      /\ t.pc = "mutate"
      /\ c \in t.calls
      /\ serverTodos' = ServerApply(serverTodos, c, nextId)
      /\ nextId' = IF c.type = "create" THEN nextId + 1 ELSE nextId
      /\ UNCHANGED <<user, filterBy>>
      /\ NoShowError
      /\ IF left # {}
         THEN /\ tasks' = rest (+) One(t2)
              /\ UNCHANGED <<todos, todoTitle, isAdding, deletedTodoIds, selectedTodoIds>>
              /\ Rerender(FALSE)
         ELSE IF t.kind = "orphan"
         THEN /\ tasks' = rest
              /\ UNCHANGED <<todos, todoTitle, isAdding, deletedTodoIds, selectedTodoIds>>
              /\ Rerender(FALSE)
         ELSE loadTodos(t2, rest)

\* A mutation call c of task t fails: the awaited promise is rejected and
\* the catch block of the handler runs at once; the other calls of a
\* Promise.all stay outstanding.
CallFails(t, c) ==
  LET left == t.calls \ {c}
      rest == tasks (-) One(t)
      orphans == IF left = {} THEN EmptyBag ELSE One(Task("orphan", 0, "mutate", left))
  IN  /\ UNCHANGED intents
      /\ t.pc = "mutate"
      /\ c \in t.calls
      /\ UNCHANGED <<user, filterBy, serverTodos, nextId, todos>>
      /\ tasks' = rest (+) orphans
      /\ IF t.kind = "orphan"
         THEN /\ UNCHANGED <<todoTitle, isAdding, deletedTodoIds, selectedTodoIds>>
              /\ NoShowError
              /\ Rerender(FALSE)
         ELSE /\ Catch(t.kind)
              /\ Rerender(CatchClearsSelected(t.kind))

\* the store answers the getTodos of task t: the list it holds now, or an error
getTodos(t, ok) ==
  /\ UNCHANGED intents
  /\ t.pc = "load"
  /\ tasks' = (tasks (-) One(t)) (+)
       One([t EXCEPT !.pc = "loaded",
                     !.resp = [ok |-> ok, todos |-> IF ok THEN serverTodos ELSE <<>>]])
  /\ UNCHANGED <<user, todos, filterBy, todoTitle, isAdding, deletedTodoIds,
                 selectedTodoIds, serverTodos, nextId>>
  /\ NoShowError
  /\ Rerender(FALSE)

\* mutant: the catch block of loadTodos empties the list
LoadedTodos_ClearedOnFailure(t) == IF t.resp.ok THEN t.resp.todos ELSE <<>>

\* mutant: loadTodos without its setTodos
LoadedTodos_NotSet(t) == todos

\* todos after the try/catch of loadTodos: setTodos runs only in the try
LoadedTodos(t) == IF t.resp.ok THEN t.resp.todos ELSE todos

\* the handlers that have something left to do after `await loadTodos()`
\* (the mount effect does not await it; handleDeleteTodo and
\* handleDeleteCompletedTodos end with it)
ResumingKinds == {"add", "toggle", "toggleAll", "rename"}

\* The answer of getTodos reaches loadTodos, which sets todos or shows its
\* error and returns.  The handler that awaits it goes on only in a later
\* microtask: until then its markers stay.  Neither step waits for the
\* filtering effect of an earlier commit.
loadTodosReturns(t) ==
  /\ UNCHANGED intents
  /\ t.pc = "loaded"
  /\ tasks' = IF t.kind \in ResumingKinds
              THEN (tasks (-) One(t)) (+) One([t EXCEPT !.pc = "resume"])
              ELSE tasks (-) One(t)
  /\ todos' = LoadedTodos(t)
  /\ IF t.resp.ok THEN NoShowError ELSE showError(ErrLoad)
  /\ UNCHANGED <<selectedTodoIds, isAdding, todoTitle, deletedTodoIds>>
  /\ UNCHANGED <<user, filterBy, serverTodos, nextId>>
  /\ Rerender(FALSE)

\* the handler goes on after its `await loadTodos()` and ends
handlerResumes(t) ==
  /\ UNCHANGED intents
  /\ t.pc = "resume"
  /\ tasks' = tasks (-) One(t)
  /\ AfterLoad(t)
  /\ NoShowError
  /\ UNCHANGED <<user, todos, filterBy, serverTodos, nextId>>
  /\ Rerender(t.kind \in SelectingKinds)

(* ------------------------- the filtering effect ---------------------- *)
\* The effect with [filterBy, todos] runs after the commit that changed one
\* of them and sets visibleTodos; a second render and commit follow.
filteringEffect ==
  /\ ~EffectsFlushed
  /\ visibleTodos' = filteredTodos(todos, filterBy)
  /\ UNCHANGED <<user, todos, filterBy, error, todoTitle, isAdding, deletedTodoIds,
                 selectedTodoIds, toggleAllTodos, timers, tasks, serverTodos,
                 nextId, intents>>

(* ------------------------------- time --------------------------------- *)
\* TickMs pass; a timer that is due fires before time goes on
Tick ==
  /\ ~ContinuationPending
  /\ UNCHANGED intents
  /\ \A i \in 1..Len(timers) : timers[i] > 0
  /\ timers' = [i \in 1..Len(timers) |->
                  IF timers[i] > TickMs THEN timers[i] - TickMs ELSE 0]
  /\ UNCHANGED <<user, todos, visibleTodos, filterBy, error, todoTitle, isAdding,
                 deletedTodoIds, selectedTodoIds, toggleAllTodos, tasks,
                 serverTodos, nextId>>

\* The callback of the oldest setTimeout of showError runs (all timers have
\* the same delay, so they run oldest first).  Without a clock the handlers'
\* steps may be arbitrarily far apart in time, so the oldest timer may run
\* between any two of them.
TimerFires ==
  /\ ~ContinuationPending
  /\ UNCHANGED intents
  /\ timers # <<>>
  /\ timers' = Tail(timers)
  /\ error' = NoError
  /\ UNCHANGED <<user, todos, filterBy, todoTitle, isAdding, deletedTodoIds,
                 selectedTodoIds, tasks, serverTodos, nextId>>
  /\ Rerender(FALSE)

\* the callback of the oldest setTimeout runs when its delay has passed
TimerExpires ==
  /\ timers # <<>>
  /\ Head(timers) = 0
  /\ TimerFires

(* --------------------------- specification ---------------------------- *)
\* lists the remote store may hold when the component mounts
InitialLists ==
  {<<>>, <<Todo(1, <<"c">>, FALSE)>>, <<Todo(1, <<"c">>, TRUE), Todo(2, <<"c">>, FALSE)>>}

\* The state after the first render and its effects: the mount effect has
\* called loadTodos().
Init ==
  /\ user \in {SomeUser, NoUser}
  /\ todos = <<>>
  /\ visibleTodos = <<>>
  /\ filterBy = ALL
  /\ error = NoError
  /\ todoTitle = <<>>
  /\ isAdding = FALSE
  /\ deletedTodoIds = <<>>
  /\ selectedTodoIds = <<>>
  /\ toggleAllTodos = <<>>
  /\ timers = <<>>
  /\ serverTodos \in InitialLists
  /\ nextId = Len(serverTodos) + 1
  /\ intents = 0
  /\ tasks = IF UserSignedIn(user) THEN One(Task("mount", 0, "load", {})) ELSE EmptyBag

\* `todos.length > 0 &&`: the toggle-all button, the list and the filter bar,
\* and with them the handlers they carry, are there only for a list that
\* is not empty
ListRendered == Len(todos) > 0

Next ==
  \/ \E title \in DraftTitles : handleSetTodoTitle(title)
  \/ handleAddNewTodo
  \/ ListRendered /\ \E id \in Ids : handleDeleteTodo(id)
  \/ ListRendered /\ handleDeleteCompletedTodos
  \/ ListRendered /\ \E id \in Ids, completed \in BOOLEAN : handleToggleTodo(id, completed)
  \/ ListRendered /\ handleToggleAllTodos
  \/ ListRendered /\ \E id \in Ids, title \in NewTitles : handleChangeTodoTitle(id, title)
  \/ ListRendered /\ \E filterType \in FilterType : handleFilterSelect(filterType)
  \/ handleCloseError
  \/ filteringEffect
  \/ \E t \in Running : \E c \in t.calls : CallSucceeds(t, c)
  \/ \E t \in Running : \E c \in t.calls : CallFails(t, c)
  \/ \E t \in Running, ok \in BOOLEAN : getTodos(t, ok)
  \/ \E t \in Running : loadTodosReturns(t)
  \/ \E t \in Running : handlerResumes(t)
  \/ TimerFires

Spec == Init /\ [][Next]_vars

\* The error notifier under a clock: the handlers that call showError on
\* their own (an empty title) or through a failing call, handleCloseError,
\* time passing in steps of TickMs, and a timer running when its delay has
\* passed.
NextTimed ==
  \/ handleAddNewTodo
  \/ ListRendered /\ \E id \in Ids : handleDeleteTodo(id)
  \/ ListRendered /\ \E id \in Ids, completed \in BOOLEAN : handleToggleTodo(id, completed)
  \/ handleCloseError
  \/ filteringEffect
  \/ \E t \in Running : \E c \in t.calls : CallSucceeds(t, c)
  \/ \E t \in Running : \E c \in t.calls : CallFails(t, c)
  \/ \E t \in Running, ok \in BOOLEAN : getTodos(t, ok)
  \/ \E t \in Running : loadTodosReturns(t)
  \/ \E t \in Running : handlerResumes(t)
  \/ Tick
  \/ TimerExpires

SpecTimed == Init /\ [][NextTimed]_vars


(* ------------------------- reading a step ----------------------------- *)
\* task t left its await in this step
Left(t) == CopiesIn(t, tasks') < CopiesIn(t, tasks)
\* the tasks that this step put at an await
Entered == {u \in BagToSet(tasks') : CopiesIn(u, tasks') > CopiesIn(u, tasks)}
\* the remote calls this step issued
IssuedCalls == UNION {u.calls : u \in Entered}
IssuedLoad == \E u \in Entered : u.pc = "load"
TodoIds(list) == Range(IdsOf(list))
Shown(message) == [status |-> TRUE, message |-> message]

(* ------------------------------- C1 ----------------------------------- *)
\* a delete operation that covers id is still outstanding after the step
DeleteOutstanding(id) ==
  \E t \in BagToSet(tasks') :
    \/ t.kind = "remove" /\ t.id = id
    \/ t.kind = "removeCompleted"

\* C1: when the reload of a remove(id) of a listed todo, whose delete
\* succeeded, comes back successfully, todos is the list that reload
\* returned, no error is raised, and deletedTodoIds holds no id whose delete
\* operation is not outstanding any more (it is empty when nothing else is
\* in flight).
C1_RemoveLeavesNoPendingId ==
  [][\A t \in Running :
       (t.kind = "remove" /\ t.id \in TodoIds(todos) /\ t.resp.ok /\ loadTodosReturns(t)) =>
         /\ todos' = t.resp.todos
         /\ error' = error
         /\ \A id \in Range(deletedTodoIds') : DeleteOutstanding(id)]_vars

(* ------------------------------- C2 ----------------------------------- *)
\* C2: toggleAll issues its updates from the current todos: completed=false
\* for every todo when all are completed, otherwise completed=true for
\* exactly the incomplete ones.
ToggleAllUpdates(list) ==
  {UpdateCompletedCall(list[i].id, ~list[i].completed) :
     i \in {j \in 1..Len(list) : ~list[j].completed \/ isEachTodoCompleted(list)}}
C2_ToggleAllUsesCurrentTodos ==
  [][handleToggleAllTodos => IssuedCalls = ToggleAllUpdates(todos)]_vars


(* ------------------------------- C3 ----------------------------------- *)
\* C3: an error shown by showError stays until ErrorDelay ms after that
\* showError unless it is closed or replaced first: when a timer callback
\* hides a shown error, it is the timer started by the latest showError (the
\* youngest pending timer) that is due.
C3_ErrorOutlivesOlderTimers ==
  [][(error.status /\ ~error'.status /\ Len(timers') < Len(timers)) =>
       timers[Len(timers)] = 0]_vars

(* ------------------------------- C4 ----------------------------------- *)
\* The handlers called as functions, whatever is rendered: every handler of
\* the component may be invoked in every state, without the
\* `todos.length > 0 &&` that decides which of them the page offers.
NextHandlers ==
  \/ \E title \in DraftTitles : handleSetTodoTitle(title)
  \/ handleAddNewTodo
  \/ \E id \in Ids : handleDeleteTodo(id)
  \/ handleDeleteCompletedTodos
  \/ \E id \in Ids : \E completed \in BOOLEAN : handleToggleTodo(id, completed)
  \/ handleToggleAllTodos
  \/ \E id \in Ids : \E title \in NewTitles : handleChangeTodoTitle(id, title)
  \/ \E filterType \in FilterType : handleFilterSelect(filterType)
  \/ handleCloseError
  \/ filteringEffect
  \/ \E t \in Running : \E c \in t.calls : CallSucceeds(t, c)
  \/ \E t \in Running : \E c \in t.calls : CallFails(t, c)
  \/ \E t \in Running : \E ok \in BOOLEAN : getTodos(t, ok)
  \/ \E t \in Running : loadTodosReturns(t)
  \/ \E t \in Running : handlerResumes(t)
  \/ TimerFires

SpecHandlers == Init /\ [][NextHandlers]_vars

\* C4: without a user every operation is a no-op: no step changes todos,
\* deletedTodoIds, selectedTodoIds, isAdding or error, and no remote call
\* is outstanding after it.
C4_EveryOperationNoOpWithoutUser ==
  [][~user.present =>
       /\ UNCHANGED <<todos, deletedTodoIds, selectedTodoIds, isAdding, error>>
       /\ tasks' = EmptyBag]_vars

(* ------------------------------- C5 ----------------------------------- *)
\* C5: at most one createTodo call is outstanding at any time (an add
\* invoked while isAdding is true issues none).
C5_OneCreateAtATime == CreatesOutstanding <= 1

(* ------------------------------- C6 ----------------------------------- *)
\* C6: with a user, an add whose draft title is empty or all blanks issues
\* no call, shows "Title can't be empty", leaves todoTitle as it is, leaves
\* isAdding false and adds nothing to deletedTodoIds or selectedTodoIds.
AllBlanks(title) == \A i \in 1..Len(title) : title[i] = Blank
C6_BlankTitleRejected ==
  [][(user.present /\ AllBlanks(todoTitle) /\ handleAddNewTodo) =>
       /\ tasks' = tasks
       /\ UNCHANGED <<serverTodos, nextId>>
       /\ error' = Shown(ErrEmptyTitle)
       /\ todoTitle' = todoTitle
       /\ isAdding' = FALSE
       /\ UNCHANGED <<deletedTodoIds, selectedTodoIds, todos>>]_vars

\* a whitespace-only draft has been submitted and rejected
C6_Witness ==
  /\ todoTitle = <<Blank>>
  /\ error = Shown(ErrEmptyTitle)
  /\ ~isAdding
  /\ \A t \in Running : t.kind # "add"

(* ------------------------------- C7 ----------------------------------- *)
\* C7: when the delete call of a remove(id) fails, "Unable to delete a todo"
\* is shown, deletedTodoIds becomes empty whatever it held, no reload is
\* issued and todos is unchanged.
C7_FailedRemoveResetsPending ==
  [][\A t \in Running : \A c \in t.calls :
       (t.kind = "remove" /\ CallFails(t, c)) =>
         /\ error' = Shown(ErrDelete)
         /\ deletedTodoIds' = <<>>
         /\ ~IssuedLoad
         /\ IssuedCalls = {}
         /\ todos' = todos]_vars

\* a remove has failed while another remove is still waiting for its
\* delete call: the marker of that other one is gone too
C7_Witness ==
  /\ error = Shown(ErrDelete)
  /\ deletedTodoIds = <<>>
  /\ \E t \in Running : t.kind = "remove" /\ t.pc = "mutate"

(* ------------------------------- C8 ----------------------------------- *)
AddCreateFails(t) == t.kind = "add" /\ \E c \in t.calls : CallFails(t, c)
AddReloadFails(t) == t.kind = "add" /\ ~t.resp.ok /\ loadTodosReturns(t)

\* C8 (as stated): a failure of the create call or of the reload inside add
\* shows "Unable to add a todo" and leaves todoTitle as it is.
C8_AnyAddFailureKeepsDraft ==
  [][\A t \in Running :
       (AddCreateFails(t) \/ AddReloadFails(t)) =>
         /\ error' = Shown(ErrAdd)
         /\ todoTitle' = todoTitle]_vars

\* C8 (amended): a failure of the create call shows "Unable to add a todo",
\* leaves todoTitle as it is and releases isAdding; a failure of the reload
\* after a successful create shows "Unable to load todos", and add, going
\* on after loadTodos, still clears todoTitle and releases isAdding.
C8_CreateFailureKeepsDraft ==
  [][\A t \in Running :
       /\ AddCreateFails(t) =>
            /\ error' = Shown(ErrAdd)
            /\ todoTitle' = todoTitle
            /\ isAdding' = FALSE
            /\ ~IssuedLoad
       /\ AddReloadFails(t) =>
            /\ error' = Shown(ErrLoad)
            /\ todos' = todos
            /\ \E u \in Entered : u.kind = "add" /\ u.pc = "resume"
       /\ (t.kind = "add" /\ handlerResumes(t)) =>
            /\ todoTitle' = <<>>
            /\ isAdding' = FALSE
            /\ error' = error]_vars

\* the reload of an add has failed: the created todo is in the store and not
\* in todos, the load error is shown and the draft is cleared
C8_Witness ==
  /\ error = Shown(ErrLoad)
  /\ todoTitle = <<>>
  /\ ~isAdding
  /\ tasks = EmptyBag
  /\ intents = 2
  /\ \E i \in 1..Len(serverTodos) :
       serverTodos[i].title = <<"a">> /\ serverTodos[i].id \notin TodoIds(todos)
  /\ todos # <<>>

(* ------------------------------- C9 ----------------------------------- *)
AddReloadSucceeds(t) == t.kind = "add" /\ t.resp.ok /\ loadTodosReturns(t)

\* C9 (as stated): when the reload of an add comes back successfully, todos
\* is the list that reload returned, which contains the created todo, and
\* when the handler goes on after it todoTitle is emptied and isAdding
\* released.
C9_AddedTodoInReload ==
  [][\A t \in Running :
       /\ AddReloadSucceeds(t) =>
            /\ todos' = t.resp.todos
            /\ t.created \in TodoIds(todos')
       /\ (t.kind = "add" /\ t.resp.ok /\ handlerResumes(t)) =>
            /\ todoTitle' = <<>>
            /\ isAdding' = FALSE]_vars

\* C9 (amended): ... todos is the list that reload returned, which contains
\* the created todo unless that todo has meanwhile been deleted from the
\* remote store (by a remove issued while the add was in flight).
C9_AddedTodoInReloadUnlessDeleted ==
  [][\A t \in Running :
       /\ AddReloadSucceeds(t) =>
            /\ todos' = t.resp.todos
            /\ t.created \in TodoIds(todos') \/ t.created \notin TodoIds(serverTodos)
       /\ (t.kind = "add" /\ t.resp.ok /\ handlerResumes(t)) =>
            /\ todoTitle' = <<>>
            /\ isAdding' = FALSE]_vars

\* an add has completed: the created todo is shown and the draft is cleared
C9_Witness ==
  /\ tasks = EmptyBag
  /\ todoTitle = <<>>
  /\ ~isAdding
  /\ ~error.status
  /\ timers = <<>>
  /\ todos = serverTodos
  /\ \E i \in 1..Len(todos) : todos[i].title = <<"a">>

(* ------------------------------- C10 ---------------------------------- *)
\* C10: todos changes only to the list a successful getTodos returned, in
\* the step in which that answer comes back; a failed getTodos shows
\* "Unable to load todos" and leaves todos as it is.
C10_TodosOnlyFromReload ==
  [][/\ todos' # todos =>
          \E t \in Running :
            t.pc = "loaded" /\ t.resp.ok /\ Left(t) /\ todos' = t.resp.todos
     /\ \A t \in Running :
          (t.pc = "loaded" /\ ~t.resp.ok /\ loadTodosReturns(t)) =>
            todos' = todos /\ error' = Shown(ErrLoad)]_vars

\* a reload has failed after todos had been loaded: the list is still there
C10_Witness ==
  /\ todos # <<>>
  /\ error = Shown(ErrLoad)
  /\ tasks = EmptyBag

(* ------------------------------- C11 ---------------------------------- *)
\* the mutation calls that are outstanding in a bag of tasks
OutstandingCallsIn(bag) == UNION {u.calls : u \in BagToSet(bag)}
\* the handlers that change the store
OperationKinds == {"add", "remove", "removeCompleted", "toggle", "toggleAll", "rename"}

\* C11: with a user, inside one operation (a) getTodos is sent in the step
\* in which the last outstanding mutation call of the operation is
\* fulfilled, and in no earlier one; (b) a fulfilled mutation call leaves
\* selectedTodoIds, isAdding and todoTitle as they are, so they are cleared
\* only when the reload has come back; (c) a mutation call that fails is
\* followed by no getTodos and by no new call.
C11_ReloadAfterCallsClearAfterReload ==
  [][user.present =>
       \A t \in Running : \A c \in t.calls :
         /\ (t.kind \in OperationKinds /\ CallSucceeds(t, c)) =>
              /\ IssuedLoad <=> (t.calls = {c})
              /\ OutstandingCallsIn(tasks') \subseteq OutstandingCallsIn(tasks)
              /\ UNCHANGED <<selectedTodoIds, isAdding, todoTitle>>
         /\ (t.kind \in OperationKinds /\ CallFails(t, c)) =>
              /\ ~IssuedLoad
              /\ OutstandingCallsIn(tasks') \subseteq OutstandingCallsIn(tasks)]_vars

\* the update of a toggle has been carried out by the store and its reload
\* has been answered but has not come back: the id is still marked
C11_Witness ==
  /\ user.present
  /\ \E t \in Running :
       /\ t.kind = "toggle" /\ t.pc = "loaded" /\ t.resp.ok
       /\ t.id \in Range(selectedTodoIds)
       /\ \E i \in 1..Len(todos) : \E j \in 1..Len(t.resp.todos) :
            /\ todos[i].id = t.id /\ t.resp.todos[j].id = t.id
            /\ todos[i].completed # t.resp.todos[j].completed

(* ------------------------------- C12 ---------------------------------- *)
BatchKinds == {"removeCompleted", "toggleAll"}

\* C12: when a call of a batch (removeCompleted, toggleAll) fails, the
\* error is raised and selectedTodoIds is cleared only when every call of
\* that batch has settled: in the step in which the catch block runs no
\* other call of the batch is outstanding.
C12_BatchWaitsForAllCalls ==
  [][\A t \in Running : \A c \in t.calls :
       (t.kind \in BatchKinds /\ CallFails(t, c) /\ error' = Shown(CatchMessage(t.kind))) =>
         /\ t.calls = {c}
         /\ \A u \in Entered : u.calls = {}]_vars

(* ------------------------------- C13 ---------------------------------- *)
\* The add form on its own: the draft is typed, the form is submitted, and
\* the calls come back.
NextAdd ==
  \/ \E title \in DraftTitles : handleSetTodoTitle(title)
  \/ handleAddNewTodo
  \/ handleCloseError
  \/ filteringEffect
  \/ \E t \in Running : \E c \in t.calls : CallSucceeds(t, c)
  \/ \E t \in Running : \E c \in t.calls : CallFails(t, c)
  \/ \E t \in Running : \E ok \in BOOLEAN : getTodos(t, ok)
  \/ \E t \in Running : loadTodosReturns(t)
  \/ \E t \in Running : handlerResumes(t)
  \/ TimerFires

\* a remote call that is outstanding settles, and the handler that awaits
\* it is resumed
Settle ==
  \E t \in Running :
    \/ \E c \in t.calls : CallSucceeds(t, c) \/ CallFails(t, c)
    \/ \E ok \in BOOLEAN : getTodos(t, ok)
    \/ loadTodosReturns(t)
    \/ handlerResumes(t)

\* every issued remote call eventually settles
SpecAdd == Init /\ [][NextAdd]_vars /\ WF_vars(Settle) /\ WF_vars(filteringEffect)

AddInFlight == \E t \in Running : t.kind = "add"

\* C13: isAdding is released on every path: while no add is in flight
\* isAdding is false, and, every remote call settling eventually, isAdding
\* true is always followed by isAdding false.
C13_IsAddingReleased ==
  /\ [](isAdding => AddInFlight)
  /\ isAdding ~> ~isAdding

\* an add whose createTodo failed has released isAdding
C13_Witness ==
  /\ ~isAdding
  /\ ~AddInFlight
  /\ error = Shown(ErrAdd)

(* ------------------------------- C14 ---------------------------------- *)
\* The filter bar at work: the list is loaded, todos are toggled, deleted
\* and added, and the filter is chosen.
NextFilter ==
  \/ ListRendered /\ \E filterType \in FilterType : handleFilterSelect(filterType)
  \/ filteringEffect
  \/ \E title \in DraftTitles : handleSetTodoTitle(title)
  \/ handleAddNewTodo
  \/ ListRendered /\ \E id \in Ids : handleDeleteTodo(id)
  \/ ListRendered /\ \E id \in Ids : \E completed \in BOOLEAN : handleToggleTodo(id, completed)
  \/ \E t \in Running : \E c \in t.calls : CallSucceeds(t, c)
  \/ \E t \in Running : \E c \in t.calls : CallFails(t, c)
  \/ \E t \in Running : \E ok \in BOOLEAN : getTodos(t, ok)
  \/ \E t \in Running : loadTodosReturns(t)
  \/ \E t \in Running : handlerResumes(t)
  \/ TimerFires

SpecFilter == Init /\ [][NextFilter]_vars

\* the elements of list at the positions pos, in the order of list
Restriction(list, pos) ==
  [k \in 1..Cardinality(pos) |->
     list[CHOOSE i \in pos : Cardinality({j \in pos : j <= i}) = k]]
ActivePositions(list) == {i \in 1..Len(list) : list[i].completed = FALSE}
CompletedPositions(list) == {i \in 1..Len(list) : list[i].completed = TRUE}

\* the list the filter f shows of list, said without the filtering callback
View(list, f) ==
  CASE f = ALL -> list
    [] f = ACTIVE -> Restriction(list, ActivePositions(list))
    [] f = COMPLETED -> Restriction(list, CompletedPositions(list))

\* C14: the filtered view of todos is todos itself under ALL, exactly the
\* todos with completed = false under ACTIVE and exactly those with
\* completed = true under COMPLETED, each in the order of todos; the ACTIVE
\* and the COMPLETED view share no todo and together hold every todo; the
\* filtering effect sets visibleTodos to that view; choosing a filter
\* changes filterBy only (the view follows in the effect) and sends no
\* remote call.
C14_FilterView ==
  /\ [](/\ \A f \in FilterType : filteredTodos(todos, f) = View(todos, f)
        /\ Range(filteredTodos(todos, ACTIVE)) \cap Range(filteredTodos(todos, COMPLETED)) = {}
        /\ Range(filteredTodos(todos, ACTIVE)) \cup Range(filteredTodos(todos, COMPLETED))
             = Range(todos)
        /\ Len(filteredTodos(todos, ACTIVE)) + Len(filteredTodos(todos, COMPLETED))
             = Len(todos))
  /\ [][filteringEffect => visibleTodos' = View(todos, filterBy)]_vars
  /\ [][\A filterType \in FilterType :
          handleFilterSelect(filterType) =>
            /\ filterBy' = filterType
            /\ UNCHANGED <<user, todos, visibleTodos, error, todoTitle, isAdding,
                           deletedTodoIds, selectedTodoIds, timers, tasks, serverTodos,
                           nextId>>]_vars

\* ACTIVE has been chosen for a list with a completed and an active todo
C14_Witness ==
  /\ filterBy = ACTIVE
  /\ Len(todos) = 2
  /\ todos[1].completed /\ ~todos[2].completed
  /\ visibleTodos = <<todos[2]>>

(* ------------------------------- C15 ---------------------------------- *)
\* C15 as stated: when a delete of removeCompleted fails, "Unable to delete
\* a todo" is raised, selectedTodoIds is emptied and deletedTodoIds is left
\* as it is, still holding the ids of the todos that were completed when
\* removeCompleted started (the ids of its calls).
C15_FailedBatchStillHoldsItsIds ==
  [][\A t \in Running : \A c \in t.calls :
       (t.kind = "removeCompleted" /\ CallFails(t, c)) =>
         /\ error' = Shown(ErrDelete)
         /\ selectedTodoIds' = <<>>
         /\ deletedTodoIds' = deletedTodoIds
         /\ \A d \in t.calls : d.id \in Range(deletedTodoIds')]_vars

\* C15: when a delete of removeCompleted fails, "Unable to delete a todo"
\* is raised, selectedTodoIds is emptied, no reload is sent, and the step
\* leaves deletedTodoIds as it was (what it holds is what the operations
\* up to then have left in it).
C15_FailedBatchLeavesPending ==
  [][\A t \in Running : \A c \in t.calls :
       (t.kind = "removeCompleted" /\ CallFails(t, c)) =>
         /\ error' = Shown(ErrDelete)
         /\ selectedTodoIds' = <<>>
         /\ deletedTodoIds' = deletedTodoIds
         /\ ~IssuedLoad]_vars

\* a delete of removeCompleted has failed while a toggle was in flight: the
\* toggle's marker is gone, the ids of the batch are still pending
C15_Witness ==
  /\ error = Shown(ErrDelete)
  /\ selectedTodoIds = <<>>
  /\ deletedTodoIds = <<1>>
  /\ \A t \in Running : t.kind = "toggle" /\ t.pc = "mutate"
  /\ tasks # EmptyBag
  /\ \A i \in 1..Len(serverTodos) : serverTodos[i].id = 1 => serverTodos[i].completed

(* ------------------------------- C16 ---------------------------------- *)
\* C16: when the update call of a toggle, of a rename, or one of the update
\* calls of toggleAll fails, "Unable to update a todo" is raised,
\* selectedTodoIds becomes empty whatever ids other operations had put in
\* it, the operation sends no getTodos and no further call, and todos is
\* left as it is.
C16_FailedUpdateResetsSelected ==
  [][\A t \in Running : \A c \in t.calls :
       (t.kind \in SelectingKinds /\ CallFails(t, c)) =>
         /\ error' = Shown(ErrUpdate)
         /\ selectedTodoIds' = <<>>
         /\ ~IssuedLoad
         /\ OutstandingCallsIn(tasks') \subseteq OutstandingCallsIn(tasks)
         /\ todos' = todos]_vars

\* the update of a rename has failed while a toggle of another todo is in
\* flight: the toggle's marker is gone with it
C16_Witness ==
  /\ error = Shown(ErrUpdate)
  /\ selectedTodoIds = <<>>
  /\ todos # <<>>
  /\ BagCardinality(tasks) = 1
  /\ \E t \in Running : t.kind = "toggle" /\ t.pc = "mutate" /\ t.id = 2
  /\ intents = 2
  /\ \A i \in 1..Len(serverTodos) : serverTodos[i].title = <<"c">>

(* ------------------------------- C17 ---------------------------------- *)
\* C17: removeCompleted adds the ids of the completed todos to
\* deletedTodoIds before any delete is sent: right after it has started
\* deletedTodoIds holds every id it held before and the id of every
\* completed todo.  (Stated for the ids that matter: those of listed todos
\* whose own delete is still outstanding.)
RemoveOutstanding(id) ==
  \E t \in Running : t.kind = "remove" /\ t.id = id /\ t.pc = "mutate"
C17_RemoveCompletedAddsToPending ==
  [][(user.present /\ handleDeleteCompletedTodos) =>
       /\ \A id \in Range(deletedTodoIds) :
            (id \in TodoIds(todos) /\ RemoveOutstanding(id)) =>
              id \in Range(deletedTodoIds')
       /\ TodoIds(CompletedOf(todos)) \subseteq Range(deletedTodoIds')]_vars

(* ------------------------------- C18 ---------------------------------- *)
\* the operations that put ids in selectedTodoIds or empty it
MarkingKinds == {"toggle", "toggleAll", "rename", "removeCompleted"}
MarkingInFlight == \E t \in Running : t.kind \in MarkingKinds

\* C18: whenever no toggle, toggleAll, rename or removeCompleted is in
\* flight, selectedTodoIds is empty, whatever the interleaving and whichever
\* calls failed.
C18_SelectedEmptyWhenQuiet ==
  ~MarkingInFlight => selectedTodoIds = <<>>

\* a toggle and a rename of todo 2 have both completed, nothing is in
\* flight and nothing is marked
C18_Witness ==
  /\ tasks = EmptyBag
  /\ selectedTodoIds = <<>>
  /\ intents = 3
  /\ toggleAllTodos # <<>>
  /\ \E i \in 1..Len(todos) :
       todos[i].id = 2 /\ todos[i].completed /\ todos[i].title = <<"b">>

(* ------------------------------- C19 ---------------------------------- *)
\* nothing is in flight but toggles (and the mount's reload), and no two of
\* them are on the same todo
OnlyDistinctToggles(bag) ==
  /\ \A t \in BagToSet(bag) : t.kind \in {"toggle", "mount"}
  /\ \A t \in BagToSet(bag) : t.kind = "toggle" => CopiesIn(t, bag) = 1
  /\ \A t, u \in BagToSet(bag) :
       (t.kind = "toggle" /\ u.kind = "toggle" /\ t.id = u.id) => t = u
\* every todo whose toggle is outstanding is marked
TogglesMarked(bag, selected) ==
  \A t \in BagToSet(bag) : t.kind = "toggle" => t.id \in Range(selected)
CallFailed == \E t \in Running : \E c \in t.calls : CallFails(t, c)

\* C19 as stated: with a user and no call ever failing, whenever nothing is
\* in flight but toggles of pairwise distinct todos, every todo whose toggle
\* is outstanding is in selectedTodoIds.
C19_OutstandingTogglesAreMarked ==
  (user.present /\ OnlyDistinctToggles(tasks)) => TogglesMarked(tasks, selectedTodoIds)

\* C19, amended: with a user, a step without a failing call that leads from
\* a state where nothing is in flight but toggles of pairwise distinct
\* todos, every one of them marked, to another state where nothing is in
\* flight but toggles of pairwise distinct todos, leaves every outstanding
\* toggle marked; a toggle that completes in such a step removes its own
\* id from selectedTodoIds and no other.
C19_DistinctTogglesKeepTheirMarkers ==
  [][(/\ user.present
      /\ OnlyDistinctToggles(tasks) /\ TogglesMarked(tasks, selectedTodoIds)
      /\ OnlyDistinctToggles(tasks')
      /\ ~CallFailed) =>
        /\ TogglesMarked(tasks', selectedTodoIds')
        /\ \A t \in Running :
             (t.kind = "toggle" /\ handlerResumes(t)) =>
               /\ t.id \notin Range(selectedTodoIds')
               /\ \A id \in Range(selectedTodoIds) \ {t.id} : id \in Range(selectedTodoIds')]_vars

\* two toggles of different todos are in flight and both todos are marked;
\* the reload of the toggle of todo 1 has been answered and is about to
\* come back
C19_Witness ==
  /\ user.present
  /\ OnlyDistinctToggles(tasks)
  /\ TogglesMarked(tasks, selectedTodoIds)
  /\ \E t, u \in Running :
       /\ t.kind = "toggle" /\ t.id = 1 /\ t.pc = "loaded" /\ t.resp.ok
       /\ u.kind = "toggle" /\ u.id = 2
  /\ todos # <<>>

(* ------------------------------- C20 ---------------------------------- *)
\* The application when every remote call succeeds.
NextAllSucceed ==
  \/ \E title \in DraftTitles : handleSetTodoTitle(title)
  \/ handleAddNewTodo
  \/ ListRendered /\ \E id \in Ids : handleDeleteTodo(id)
  \/ ListRendered /\ handleDeleteCompletedTodos
  \/ ListRendered /\ \E id \in Ids : \E completed \in BOOLEAN : handleToggleTodo(id, completed)
  \/ ListRendered /\ handleToggleAllTodos
  \/ ListRendered /\ \E id \in Ids : \E title \in NewTitles : handleChangeTodoTitle(id, title)
  \/ ListRendered /\ \E filterType \in FilterType : handleFilterSelect(filterType)
  \/ handleCloseError
  \/ filteringEffect
  \/ \E t \in Running : \E c \in t.calls : CallSucceeds(t, c)
  \/ \E t \in Running : getTodos(t, TRUE)
  \/ \E t \in Running : loadTodosReturns(t)
  \/ \E t \in Running : handlerResumes(t)
  \/ TimerFires

SpecAllSucceed == Init /\ [][NextAllSucceed]_vars

\* C20 as stated: every remote call succeeding, once nothing is in flight
\* todos is the list the store holds.
C20_QuietCacheIsTheStore ==
  (user.present /\ tasks = EmptyBag) => todos = serverTodos

\* C20: every remote call succeeding, todos changes only when a reload
\* comes back, and then to the list that reload returned whatever todos
\* was, so the reload that came back last decides; the last operation in
\* flight ends with its reload coming back or with the handler going on
\* after it, which leaves todos; todos is then the list the store holds if
\* and only if that last answer is the store's current list (an answer
\* given before a later mutation is not).
C20_QuietCacheIsTheLastAnswer ==
  [][/\ \A t \in Running :
          loadTodosReturns(t) =>
            /\ todos' = t.resp.todos
            /\ (todos' = serverTodos') <=> (t.resp.todos = serverTodos)
     /\ (~ \E t \in Running : loadTodosReturns(t)) => todos' = todos
     /\ (user.present /\ tasks # EmptyBag /\ tasks' = EmptyBag) =>
          \E t \in Running :
            /\ Left(t)
            /\ t.pc = "loaded" \/ (t.pc = "resume" /\ todos' = todos)]_vars

\* nothing is in flight, every call has succeeded, and the list that came
\* back last is an old one: todos is not what the store holds
C20_Witness ==
  /\ user.present
  /\ tasks = EmptyBag
  /\ intents > 0
  /\ todos # <<>>
  /\ todos # serverTodos


====
